---- MODULE Spec2Model ----
(***************************************************************************)
(* Model of lamda_function.py: an AWS Lambda handler that, on an S3        *)
(* object-created notification, reads a JSON document, flattens its        *)
(* `items` list and commits the result as a parquet dataset registered in  *)
(* the Glue catalog.                                                       *)
(*                                                                         *)
(* Strings that the code inspects character by character (object keys)     *)
(* are sequences of code points; all other strings are TLA+ strings.       *)
(* An optional value is a sequence of length 0 (None) or 1.                *)
(***************************************************************************)
EXTENDS Integers, Sequences, FiniteSets, TLC

VARIABLES
    environ,          \* os.environ: function from the variables that are set to their values
    event,            \* the notification handed to lambda_handler: [Records |-> Seq(record)]
    storage,          \* destination dataset: path -> sequence of rows
    catalog,          \* Glue catalog: table -> optional table definition
    pc,               \* stage of the current invocation
    env,              \* local `env` (optional config dict)
    bucket,           \* local `bucket` (optional)
    key,              \* local `key` (optional, decoded)
    df_raw,           \* local `df_raw` (optional document)
    df_processed,     \* local `df_processed` (optional sequence of rows)
    to_parquet_call,  \* arguments handed to wr.s3.to_parquet (optional)
    response,         \* value returned by lambda_handler (optional)
    raised,           \* exception propagated out of lambda_handler (optional)
    log,              \* records emitted on `logger` by this invocation
    failed_at,        \* history: stage whose statement raised ("" if none)
    pre,              \* history: storage and catalog when the invocation started
    lastOk,           \* history: last successful invocation in overwrite mode (optional)
    seen              \* history: <<error outcome, effect>> pairs of failed commits

vars == <<environ, event, storage, catalog, pc, env, bucket, key, df_raw,
          df_processed, to_parquet_call, response, raised, log, failed_at,
          pre, lastOk, seen>>

None == <<>>
Some(x) == <<x>>

----------------------------------------------------------------------------
(* Bounds *)

MaxKeyLen == 3      \* longest object key of a notification, in characters
MaxRecords == 2     \* most records in one notification
MaxStored == 4      \* most rows kept in the destination dataset

----------------------------------------------------------------------------
(* Environment *)

required_vars ==
    << "s3_cleansed_layer", "glue_catalog_db_name",
       "glue_catalog_table_name", "write_data_operation" >>

RequiredSet == { required_vars[i] : i \in 1..Len(required_vars) }

WriteModeValues == { "append", "overwrite", "upsert" }

\* values an operator may give each variable
EnvValues(var) ==
    CASE var = "s3_cleansed_layer" -> { "s3://cleansed/" }
      [] var = "glue_catalog_db_name" -> { "db" }
      [] var = "glue_catalog_table_name" -> { "tbl" }
      [] OTHER -> WriteModeValues

\* os.environ with the variables `present` set, the write mode to `mode`
Environ(present, mode) ==
    [ v \in present |-> IF v = "write_data_operation" THEN mode
                        ELSE CHOOSE x \in EnvValues(v) : TRUE ]

AllEnvirons == { Environ(present, m) : present \in SUBSET RequiredSet, m \in WriteModeValues }

\* [var for var in required_vars if var not in os.environ]
RECURSIVE MissingFrom(_, _)
MissingFrom(e, i) ==
    IF i > Len(required_vars) THEN <<>>
    ELSE (IF required_vars[i] \in DOMAIN e THEN <<>> ELSE << required_vars[i] >>)
         \o MissingFrom(e, i + 1)

\* a validation that stops at the first variable it misses
missing_vars_first(e) ==
    IF MissingFrom(e, 1) = <<>> THEN <<>> ELSE << MissingFrom(e, 1)[1] >>

missing_vars(e) == MissingFrom(e, 1)

ConfigOf(e) ==
    [ cleansed_path |-> e["s3_cleansed_layer"],
      db_name       |-> e["glue_catalog_db_name"],
      table_name    |-> e["glue_catalog_table_name"],
      write_mode    |-> e["write_data_operation"] ]

\* validate_environment(): [ok, value] or [~ok, exc]
validate_environment(e) ==
    IF missing_vars(e) # <<>>
    THEN [ ok |-> FALSE, exc |-> [ type |-> "EnvironmentError", args |-> missing_vars(e) ] ]
    ELSE [ ok |-> TRUE, value |-> ConfigOf(e) ]

----------------------------------------------------------------------------
(* Notification decoding *)

\* code points
PLUS == 43
SPACE == 32
PERCENT == 37
REPLACEMENT == 65533    \* U+FFFD

KeyAlphabet == { PLUS, PERCENT, 50, 66 }    \* '+', '%', '2', 'B'

RECURSIVE SeqsUpTo(_, _)
SeqsUpTo(S, n) ==
    IF n = 0 THEN { <<>> }
    ELSE LET shorter == SeqsUpTo(S, n - 1)
         IN  shorter \cup { Append(s, c) : s \in { t \in shorter : Len(t) = n - 1 }, c \in S }

IsHex(c) == (c >= 48 /\ c <= 57) \/ (c >= 65 /\ c <= 70) \/ (c >= 97 /\ c <= 102)

HexVal(c) ==
    IF c <= 57 THEN c - 48 ELSE IF c <= 70 THEN c - 55 ELSE c - 87

\* string.replace('+', ' ')
ReplacePlus(s) == [ i \in 1..Len(s) |-> IF s[i] = PLUS THEN SPACE ELSE s[i] ]

\* urllib.parse.unquote_to_bytes: every %XX with two hex digits becomes the
\* byte 16*X+X; a '%' not followed by two hex digits is kept as it is
RECURSIVE UnquoteToBytes(_)
UnquoteToBytes(s) ==
    IF s = <<>> THEN <<>>
    ELSE IF s[1] = PERCENT /\ Len(s) >= 3 /\ IsHex(s[2]) /\ IsHex(s[3])
         THEN << 16 * HexVal(s[2]) + HexVal(s[3]) >> \o UnquoteToBytes(SubSeq(s, 4, Len(s)))
         ELSE << s[1] >> \o UnquoteToBytes(Tail(s))

\* bytes.decode('utf-8', errors='replace') on bytes below 0xC0: an ASCII byte
\* is itself, a continuation byte without a lead byte becomes U+FFFD
Utf8Decode(bs) == [ i \in 1..Len(bs) |-> IF bs[i] < 128 THEN bs[i] ELSE REPLACEMENT ]

unquote(s) == Utf8Decode(UnquoteToBytes(s))

\* urllib.parse.unquote_plus(string, encoding='utf-8')
unquote_plus(s) == unquote(ReplacePlus(s))

Buckets == { "raw-1", "raw-2" }

Record(b, k) == [ bucket_name |-> b, object_key |-> k ]

\* a record without an object key, as a producer other than S3 could send
MalformedRecord == [ bucket_name |-> "raw-1" ]

\* a decoder that takes the last record of the notification
ParseS3Event_Last(ev) ==
    IF Len(ev.Records) = 0
    THEN [ ok |-> FALSE, exc |-> [ type |-> "IndexError", args |-> << "list index out of range" >> ] ]
    ELSE IF "object_key" \notin DOMAIN ev.Records[Len(ev.Records)]
    THEN [ ok |-> FALSE, exc |-> [ type |-> "KeyError", args |-> << "object" >> ] ]
    ELSE [ ok |-> TRUE,
           bucket |-> ev.Records[Len(ev.Records)].bucket_name,
           key |-> unquote_plus(ev.Records[Len(ev.Records)].object_key) ]

\* lines 37-39: bucket, key and s3_path from event['Records'][0]
ParseS3Event(ev) ==
    IF Len(ev.Records) = 0
    THEN [ ok |-> FALSE, exc |-> [ type |-> "IndexError", args |-> << "list index out of range" >> ] ]
    ELSE IF "object_key" \notin DOMAIN ev.Records[1]
    THEN [ ok |-> FALSE, exc |-> [ type |-> "KeyError", args |-> << "object" >> ] ]
    ELSE [ ok |-> TRUE,
           bucket |-> ev.Records[1].bucket_name,
           key |-> unquote_plus(ev.Records[1].object_key) ]

s3_path(b, k) == [ bucket |-> b, key |-> k ]

----------------------------------------------------------------------------
(* Source documents and flattening *)

Val(n) == [ t |-> "val", v |-> n, f |-> {} ]
Obj(fields) == [ t |-> "obj", v |-> 0, f |-> fields ]

\* {"a": 1}  and  {"a": 1, "b": {"c": 2}}
ItemA == { << "a", Val(1) >> }
ItemB == { << "a", Val(1) >>, << "b", Obj({ << "c", 2 >> }) >> }

Doc(kind, items) == [ kind |-> kind, items |-> items ]

\* objects of the landing buckets, by bucket and (decoded) key
Landing ==
    { [ bucket |-> "raw-1", key |-> << SPACE >>, doc |-> Doc("seq", << ItemB >>) ],
      [ bucket |-> "raw-1", key |-> << PLUS >>,  doc |-> Doc("seq", << ItemA, ItemB >>) ],
      [ bucket |-> "raw-1", key |-> << 34 >>,    doc |-> Doc("seq", << ItemA >>) ],
      [ bucket |-> "raw-1", key |-> << 50 >>,    doc |-> Doc("scalar", <<>>) ],
      [ bucket |-> "raw-1", key |-> << 66 >>,    doc |-> Doc("empty", <<>>) ],
      [ bucket |-> "raw-2", key |-> << 50 >>,    doc |-> Doc("noitems", <<>>) ],
      [ bucket |-> "raw-2", key |-> << 66 >>,    doc |-> Doc("seq", <<>>) ],
      [ bucket |-> "raw-2", key |-> << SPACE >>, doc |-> Doc("nonrecords", <<>>) ] }

ObjectsAt(path) == { o \in Landing : o.bucket = path.bucket /\ o.key = path.key }

Exc(type, arg) == [ type |-> type, args |-> << arg >> ]

\* wr.s3.read_json(s3_path): the document, or the exception raised
read_json(path) ==
    IF ObjectsAt(path) = {}
    THEN { [ ok |-> FALSE, exc |-> Exc("NoFilesFound", "no files found") ] }
    ELSE LET doc == (CHOOSE o \in ObjectsAt(path) : TRUE).doc
         IN  CASE doc.kind = "empty" ->
                    { [ ok |-> FALSE, exc |-> Exc(t, "no data") ]
                      : t \in { "ValueError", "EmptyDataError" } }
               [] doc.kind = "scalar" ->
                    { [ ok |-> FALSE, exc |-> Exc("ValueError", "all scalar values") ] }
               [] OTHER -> { [ ok |-> TRUE, value |-> doc ] }

\* one record of `items` to one row: nested objects become dotted columns
nested_to_record(item) ==
    { << << p[1] >>, p[2].v >> : p \in { q \in item : q[2].t = "val" } }
    \cup UNION { { << << p[1], g[1] >>, g[2] >> : g \in p[2].f }
                 : p \in { q \in item : q[2].t = "obj" } }

\* a lookup that takes a missing `items` for an empty list
GetItems_Default(doc) ==
    IF doc.kind = "noitems" THEN [ ok |-> TRUE, value |-> Doc("seq", <<>>) ]
    ELSE [ ok |-> TRUE, value |-> doc ]

\* df_raw['items'], line 46: the column, or KeyError when the frame has none
GetItems(doc) ==
    IF doc.kind = "noitems" THEN [ ok |-> FALSE, exc |-> Exc("KeyError", "items") ]
    ELSE [ ok |-> TRUE, value |-> doc ]

\* pd.json_normalize(items): one row per element
json_normalize(doc) ==
    IF doc.kind = "nonrecords"
    THEN [ ok |-> FALSE, exc |-> Exc("AttributeError", "values") ]
    ELSE [ ok |-> TRUE,
           value |-> [ i \in 1..Len(doc.items) |-> nested_to_record(doc.items[i]) ] ]

\* line 46: pd.json_normalize(df_raw['items'])
Normalize(doc) ==
    IF GetItems(doc).ok THEN json_normalize(GetItems(doc).value) ELSE GetItems(doc)

Columns(df) == UNION { { c[1] : c \in df[i] } : i \in 1..Len(df) }

----------------------------------------------------------------------------
(* Destination: parquet dataset and Glue catalog *)

Paths == EnvValues("s3_cleansed_layer")
Tables == EnvValues("glue_catalog_db_name") \X EnvValues("glue_catalog_table_name")

\* a write call with the mode hard-coded to append
ToParquetArgs_Append(df, cfg) ==
    [ df |-> df, path |-> cfg.cleansed_path, dataset |-> TRUE,
      database |-> cfg.db_name, table |-> cfg.table_name, mode |-> "append" ]

\* a write call with the mode hard-coded to overwrite
ToParquetArgs_Overwrite(df, cfg) ==
    [ df |-> df, path |-> cfg.cleansed_path, dataset |-> TRUE,
      database |-> cfg.db_name, table |-> cfg.table_name, mode |-> "overwrite" ]

\* the keyword arguments of the wr.s3.to_parquet call, lines 51-58
ToParquetArgs(df, cfg) ==
    [ df |-> df, path |-> cfg.cleansed_path, dataset |-> TRUE,
      database |-> cfg.db_name, table |-> cfg.table_name, mode |-> cfg.write_mode ]

\* rows at the destination after the storage write
Written(a, st) == IF a.mode = "overwrite" THEN a.df ELSE st[a.path] \o a.df

\* table definition after the catalog registration
Registered(a, cat) ==
    LET tbl == << a.database, a.table >>
    IN  Some([ location |-> a.path,
               columns |-> IF a.mode = "overwrite" \/ cat[tbl] = None
                           THEN Columns(a.df)
                           ELSE cat[tbl][1].columns \cup Columns(a.df) ])

Outcome(ok, st, cat, exc) == [ ok |-> ok, storage |-> st, catalog |-> cat, exc |-> exc ]

NoExc == [ type |-> "", args |-> <<>> ]

\* wr.s3.to_parquet(**a): every outcome the library call can have, as the
\* destination state it leaves and the exception it raises
to_parquet(a, st, cat) ==
    LET tbl == << a.database, a.table >>
        stW == [ st EXCEPT ![a.path] = Written(a, st) ]
        catR == [ cat EXCEPT ![tbl] = Registered(a, cat) ]
    IN  IF a.mode \notin { "append", "overwrite" }
        THEN { Outcome(FALSE, s, cat, Exc("InvalidArgumentValue", "mode")) : s \in { st, stW } }
        ELSE { Outcome(TRUE, stW, catR, NoExc) }
             \cup (IF a.df = <<>>
                   THEN { Outcome(FALSE, st, cat, Exc("EmptyDataFrame", "DataFrame cannot be empty")) }
                   ELSE {})
             \* storage write fails; an overwrite may already have deleted the old files
             \cup { Outcome(FALSE, s, cat, Exc("ClientError", "request failed"))
                    : s \in { st } \cup (IF a.mode = "overwrite"
                                         THEN { [ st EXCEPT ![a.path] = <<>> ] } ELSE {}) }
             \* catalog registration fails after the files were written
             \cup { Outcome(FALSE, stW, cat, Exc("ClientError", "request failed")) }

----------------------------------------------------------------------------
(* lambda_handler *)

Info(msg) == [ level |-> "INFO", msg |-> msg, exc |-> "" ]

\* the message of the `except` clause that catches an exception of this type
ExceptClause(type) ==
    IF type = "NoFilesFound" THEN "S3 file not found"
    ELSE IF type = "EmptyDataError" THEN "Empty/invalid JSON"
    ELSE "Unexpected error"

\* an `except` clause that logs and does not re-raise: the handler returns None
Except_NoRaise(stage, exc, lg) ==
    /\ log' = Append(lg, [ level |-> "ERROR", msg |-> ExceptClause(exc.type), exc |-> exc.type ])
    /\ raised' = None
    /\ failed_at' = stage
    /\ pc' = "Responded"

\* an `except` clause that raises a new error in place of the caught one
Except_Wrapped(stage, exc, lg) ==
    /\ log' = Append(lg, [ level |-> "ERROR", msg |-> ExceptClause(exc.type), exc |-> exc.type ])
    /\ raised' = Some(Exc("RuntimeError", "processing failed"))
    /\ failed_at' = stage
    /\ pc' = "Failed"

\* lines 68-76: log the error after the records `lg` logged so far, then re-raise it
Except(stage, exc, lg) ==
    /\ log' = Append(lg, [ level |-> "ERROR", msg |-> ExceptClause(exc.type), exc |-> exc.type ])
    /\ raised' = Some(exc)
    /\ failed_at' = stage
    /\ pc' = "Failed"

\* a response that reports the second component of the frame's shape
ResponseOf_Columns(k, cfg, df) ==
    [ statusCode |-> 200,
      body |-> << "Successfully processed", k >>,
      output_location |-> cfg.cleansed_path,
      processed_rows |-> Cardinality(Columns(df)) ]

\* the response dict, lines 61-66
ResponseOf(k, cfg, df) ==
    [ statusCode |-> 200,
      body |-> << "Successfully processed", k >>,
      output_location |-> cfg.cleansed_path,
      processed_rows |-> Len(df) ]

\* line 33-34
ValidateEnvironment ==
    /\ pc = "Start"
    /\ LET r == validate_environment(environ)
       IN  IF r.ok
           THEN /\ env' = Some(r.value)
                /\ log' = Append(log, Info("Environment config"))
                /\ pc' = "ConfigResolved"
                /\ UNCHANGED << raised, failed_at >>
           ELSE /\ Except("Config", r.exc, log)
                /\ UNCHANGED env
    /\ UNCHANGED << environ, event, storage, catalog, bucket, key, df_raw,
                    df_processed, to_parquet_call, response, pre, lastOk, seen >>

\* lines 37-40
ParseEvent ==
    /\ pc = "ConfigResolved"
    /\ LET r == ParseS3Event(event)
       IN  IF r.ok
           THEN /\ bucket' = Some(r.bucket)
                /\ key' = Some(r.key)
                /\ log' = Append(log, Info("Processing file"))
                /\ pc' = "EventDecoded"
                /\ UNCHANGED << raised, failed_at >>
           ELSE /\ Except("Decode", r.exc, log)
                /\ UNCHANGED << bucket, key >>
    /\ UNCHANGED << environ, event, storage, catalog, env, df_raw,
                    df_processed, to_parquet_call, response, pre, lastOk, seen >>

\* lines 43-48
ReadAndTransform ==
    /\ pc = "EventDecoded"
    /\ \E r \in read_json(s3_path(bucket[1], key[1])) :
          IF ~r.ok
          THEN /\ Except("Flatten", r.exc, log)
               /\ UNCHANGED << df_raw, df_processed >>
          ELSE LET n == Normalize(r.value)
               IN  /\ df_raw' = Some(r.value)
                   /\ IF n.ok
                      THEN /\ df_processed' = Some(n.value)
                           /\ log' = log \o << Info("Raw data columns"),
                                               Info("Processed data shape") >>
                           /\ pc' = "DataFlattened"
                           /\ UNCHANGED << raised, failed_at >>
                      ELSE /\ Except("Flatten", n.exc, Append(log, Info("Raw data columns")))
                           /\ UNCHANGED df_processed
    /\ UNCHANGED << environ, event, storage, catalog, env, bucket, key,
                    to_parquet_call, response, pre, lastOk, seen >>

\* the effect of a failed commit on the destination, for the history `seen`
Effect(st, cat) == [ storage_changed |-> st # pre.storage, catalog_changed |-> cat # pre.catalog ]

\* lines 51-59; `observe` says whether the history `seen` is kept
WriteParquet(observe) ==
    /\ pc = "DataFlattened"
    /\ LET a == ToParquetArgs(df_processed[1], env[1])
       IN  /\ to_parquet_call' = Some(a)
           /\ \E o \in to_parquet(a, storage, catalog) :
                 /\ storage' = o.storage
                 /\ catalog' = o.catalog
                 /\ IF o.ok
                    THEN /\ log' = Append(log, Info("Data written"))
                         /\ pc' = "Committed"
                         /\ UNCHANGED << raised, failed_at, seen >>
                    ELSE /\ Except("Commit", o.exc, log)
                         /\ seen' = IF observe
                                    THEN seen \cup { << [ exc |-> o.exc, msg |-> ExceptClause(o.exc.type) ],
                                                       Effect(o.storage, o.catalog) >> }
                                    ELSE seen
    /\ UNCHANGED << environ, event, env, bucket, key, df_raw, df_processed,
                    response, pre, lastOk >>

\* the invocation repeats the remembered one: same notification, same configuration
SameRun ==
    IF lastOk = None THEN FALSE
    ELSE lastOk[1].event = event /\ lastOk[1].environ = environ

\* lines 61-66; `remember` says whether the history `lastOk` is kept
Respond(remember) ==
    /\ pc = "Committed"
    /\ response' = Some(ResponseOf(key[1], env[1], df_processed[1]))
    /\ pc' = "Responded"
    /\ lastOk' = IF remember /\ env[1].write_mode = "overwrite"
                 THEN IF SameRun
                      THEN Some([ lastOk[1] EXCEPT !.n = 2 ])
                      ELSE Some([ event |-> event, environ |-> environ, storage |-> storage,
                                  catalog |-> catalog, response |-> response', n |-> 1 ])
                 ELSE lastOk
    /\ UNCHANGED << environ, event, storage, catalog, env, bucket, key, df_raw,
                    df_processed, to_parquet_call, raised, log, failed_at, pre, seen >>

\* most rows a single document adds
MaxDocRows ==
    CHOOSE n \in 0..Cardinality(Landing) :
        /\ \A o \in Landing : Len(o.doc.items) <= n
        /\ \E o \in Landing : Len(o.doc.items) = n

\* an invocation under this environment may add rows to the destination
MayAdd(e) ==
    IF "write_data_operation" \in DOMAIN e THEN e["write_data_operation"] # "overwrite" ELSE FALSE

\* the host invokes the handler again, with fresh locals
Invoke(envs, events) ==
    /\ pc \in { "Responded", "Failed" }
    /\ \E e \in envs, ev \in events :
          /\ MayAdd(e) => \A p \in Paths : Len(storage[p]) + MaxDocRows <= MaxStored
          /\ environ' = e
          /\ event' = ev
    /\ pc' = "Start"
    /\ env' = None /\ bucket' = None /\ key' = None
    /\ df_raw' = None /\ df_processed' = None /\ to_parquet_call' = None
    /\ response' = None /\ raised' = None
    /\ log' = <<>>
    /\ failed_at' = ""
    /\ pre' = [ storage |-> storage, catalog |-> catalog ]
    /\ UNCHANGED << storage, catalog, lastOk, seen >>

InitWith(envs, events) ==
    /\ environ \in envs
    /\ event \in events
    /\ storage = [ p \in Paths |-> <<>> ]
    /\ catalog = [ t \in Tables |-> None ]
    /\ pc = "Start"
    /\ env = None /\ bucket = None /\ key = None
    /\ df_raw = None /\ df_processed = None /\ to_parquet_call = None
    /\ response = None /\ raised = None
    /\ log = <<>>
    /\ failed_at = ""
    /\ pre = [ storage |-> storage, catalog |-> catalog ]
    /\ lastOk = None
    /\ seen = {}

----------------------------------------------------------------------------
(* Notifications *)

\* first records that reach every kind of source document
MainRecords ==
    { Record("raw-1", << PLUS >>), Record("raw-1", << PERCENT, 50, 66 >>),
      Record("raw-1", << 50 >>), Record("raw-1", << 66 >>), Record("raw-2", << 50 >>),
      Record("raw-2", << 66 >>), Record("raw-2", << PLUS >>),
      Record("raw-2", << 50, 50 >>), MalformedRecord }

\* records that may follow the first one
ExtraRecords == { Record("raw-1", << PLUS >>), Record("raw-2", << 50 >>) }

EventsFrom(firsts) ==
    { [ Records |-> <<>> ] }
    \cup { [ Records |-> << f >> \o rest ] : f \in firsts, rest \in SeqsUpTo(ExtraRecords, MaxRecords - 1) }

MainEvents == EventsFrom(MainRecords)

\* every key of at most MaxKeyLen characters, in either bucket
AllKeyRecords == { Record(b, k) : b \in Buckets, k \in SeqsUpTo(KeyAlphabet, MaxKeyLen) }

ValidEnvirons == { Environ(RequiredSet, m) : m \in WriteModeValues }

OverwriteEnvirons == { Environ(RequiredSet, "overwrite") }

\* a deployment that lacks two of its settings
PartialEnviron == Environ({ "s3_cleansed_layer", "write_data_operation" }, "append")

MainEnvirons == ValidEnvirons \cup { PartialEnviron }

----------------------------------------------------------------------------
(* Specifications *)

\* the pipeline, under complete and incomplete configurations
Init == InitWith(MainEnvirons, MainEvents)

Next ==
    \/ ValidateEnvironment
    \/ ParseEvent
    \/ ReadAndTransform
    \/ WriteParquet(FALSE)
    \/ Respond(FALSE)
    \/ Invoke(MainEnvirons, MainEvents)

Spec == Init /\ [][Next]_vars

\* every subset of the required variables, one notification
ConfigEvents == { [ Records |-> << Record("raw-1", << PLUS >>) >> ] }

InitConfig == InitWith(AllEnvirons, ConfigEvents)

NextConfig ==
    \/ ValidateEnvironment
    \/ ParseEvent
    \/ ReadAndTransform
    \/ WriteParquet(FALSE)
    \/ Respond(FALSE)
    \/ Invoke(AllEnvirons, ConfigEvents)

SpecConfig == InitConfig /\ [][NextConfig]_vars
\* every key of at most MaxKeyLen characters, one invocation per behaviour
InitEvent == InitWith(OverwriteEnvirons, EventsFrom(AllKeyRecords))

NextEvent ==
    \/ ValidateEnvironment
    \/ ParseEvent
    \/ ReadAndTransform
    \/ WriteParquet(FALSE)
    \/ Respond(FALSE)

SpecEvent == InitEvent /\ [][NextEvent]_vars

\* complete configurations, remembering the first of a run of successful
\* overwrite invocations
IdemEvents ==
    EventsFrom({ Record("raw-1", << PLUS >>), Record("raw-1", << PERCENT, 50, 66 >>),
                 Record("raw-2", << 66 >>), Record("raw-2", << 50 >>) })

InitIdem == InitWith(ValidEnvirons, IdemEvents)

NextIdem ==
    \/ ValidateEnvironment
    \/ ParseEvent
    \/ ReadAndTransform
    \/ WriteParquet(FALSE)
    \/ Respond(TRUE)
    \/ Invoke(ValidEnvirons, IdemEvents)

SpecIdem == InitIdem /\ [][NextIdem]_vars

\* complete configurations, recording what every failed commit raised and did
ObsEvents == { [ Records |-> << r >> ]
               : r \in { Record("raw-1", << PLUS >>), Record("raw-2", << 66 >>) } }

InitObs == InitWith(ValidEnvirons, ObsEvents)

NextObs ==
    \/ ValidateEnvironment
    \/ ParseEvent
    \/ ReadAndTransform
    \/ WriteParquet(TRUE)
    \/ Respond(FALSE)
    \/ Invoke(ValidEnvirons, ObsEvents)

SpecObs == InitObs /\ [][NextObs]_vars

----------------------------------------------------------------------------
(* Properties *)

Stages == << "Start", "ConfigResolved", "EventDecoded", "DataFlattened", "Committed", "Responded" >>

StageIndex(st) == CHOOSE i \in 1..Len(Stages) : Stages[i] = st

Terminal == { "Responded", "Failed" }

\* one step of an invocation moves to the next stage or to Failed; only a new
\* invocation leaves a terminal state
StageStep ==
    IF pc \in Terminal
    THEN pc' \in { pc, "Start" }
    ELSE \/ pc' = pc
         \/ pc' = "Failed"
         \/ pc' = Stages[StageIndex(pc) + 1]

\* the stages an invocation has run are told by the locals they assign
Ran(stage) ==
    CASE stage = "Config"  -> env # None
      [] stage = "Decode"  -> bucket # None /\ key # None
      [] stage = "Flatten" -> df_processed # None
      [] stage = "Commit"  -> to_parquet_call # None

\* a failure at a stage leaves every later stage not run
ShortCircuit ==
    pc = "Failed" =>
        /\ failed_at \in { "Config", "Decode", "Flatten", "Commit" }
        /\ failed_at = "Config" => ~Ran("Config") /\ ~Ran("Decode") /\ ~Ran("Flatten") /\ ~Ran("Commit")
        /\ failed_at = "Decode" => Ran("Config") /\ ~Ran("Decode") /\ ~Ran("Flatten") /\ ~Ran("Commit")
        /\ failed_at = "Flatten" => Ran("Config") /\ Ran("Decode") /\ ~Ran("Flatten") /\ ~Ran("Commit")
        /\ failed_at = "Commit" => Ran("Config") /\ Ran("Decode") /\ Ran("Flatten")
        /\ response = None

\* C1: every invocation passes through Start, ConfigResolved, EventDecoded,
\* DataFlattened, Committed, Responded in this order, skipping none and never
\* going back, and an error at a stage ends the invocation in Failed with no
\* later stage run (a configuration error before the event is read, a decode
\* or read/flatten error before the write call).
C1_StageOrder == [][StageStep]_vars /\ []ShortCircuit

C1_Witness ==
    /\ pc = "Failed" /\ failed_at = "Flatten"
    /\ key # None /\ to_parquet_call = None

\* C2: validate_environment fails exactly when a required variable is
\* absent, the failure lists exactly the absent variables, each once, and
\* with all four present the config holds the four environment values.
C2_ValidateEnvironment ==
    pc # "Start" =>
        IF RequiredSet \subseteq DOMAIN environ
        THEN /\ failed_at # "Config"
             /\ env = Some([ cleansed_path |-> environ["s3_cleansed_layer"],
                             db_name |-> environ["glue_catalog_db_name"],
                             table_name |-> environ["glue_catalog_table_name"],
                             write_mode |-> environ["write_data_operation"] ])
        ELSE /\ pc = "Failed" /\ failed_at = "Config" /\ env = None
             /\ raised # None
             /\ raised[1].type = "EnvironmentError"
             /\ { raised[1].args[i] : i \in 1..Len(raised[1].args) } = RequiredSet \ DOMAIN environ
             /\ Len(raised[1].args) = Cardinality(RequiredSet \ DOMAIN environ)

C2_Witness ==
    /\ pc = "Failed" /\ failed_at = "Config"
    /\ DOMAIN environ = { "glue_catalog_db_name" }
    /\ Len(raised[1].args) = 3

\* the document at the path the notification's first record names, if any
SourceDocs ==
    IF Len(event.Records) = 0 THEN {}
    ELSE IF "object_key" \notin DOMAIN event.Records[1] THEN {}
    ELSE { o.doc : o \in ObjectsAt(s3_path(event.Records[1].bucket_name,
                                            unquote_plus(event.Records[1].object_key))) }

\* C3: when the read/flatten stage fails (no object at the derived path, no
\* `items` field, or `items` not a sequence of records) the invocation fails
\* and the destination storage and the catalog are as they were before the
\* invocation; such a source never gets past the read/flatten stage.
C3_NoWriteOnReadFailure ==
    /\ (pc = "Failed" /\ failed_at = "Flatten") =>
          /\ storage = pre.storage
          /\ catalog = pre.catalog
          /\ to_parquet_call = None
          /\ response = None /\ raised # None
    /\ (env # None /\ bucket # None /\ \A d \in SourceDocs : d.kind # "seq") =>
          pc \in { "EventDecoded", "Failed" } /\ to_parquet_call = None

C3_Witness ==
    /\ pc = "Failed" /\ failed_at = "Flatten"
    /\ raised[1].type = "KeyError"
    /\ pre.storage # [ p \in Paths |-> <<>> ]
    /\ storage = pre.storage

\* exceptions the statements of a stage can raise in this invocation
Originating(stage) ==
    CASE stage = "Config" -> { validate_environment(environ).exc }
      [] stage = "Decode" -> { ParseS3Event(event).exc }
      [] stage = "Flatten" ->
            { r.exc : r \in { x \in read_json(s3_path(bucket[1], key[1])) : ~x.ok } }
            \cup { Normalize(d).exc : d \in { x \in SourceDocs : ~Normalize(x).ok } }
      [] stage = "Commit" ->
            { o.exc : o \in { x \in to_parquet(to_parquet_call[1], pre.storage, pre.catalog) : ~x.ok } }
      [] OTHER -> {}

\* C4: a failed invocation has logged the error last, and raises to the host
\* the very exception the failing statement raised; it returns no response.
C4_LogAndReraise ==
    pc = "Failed" =>
        /\ raised # None
        /\ raised[1] \in Originating(failed_at)
        /\ response = None
        /\ log # <<>>
        /\ log[Len(log)].level = "ERROR"
        /\ log[Len(log)].exc = raised[1].type
        /\ \A i \in 1..(Len(log) - 1) : log[i].level = "INFO"

C4_Witness ==
    /\ pc = "Failed" /\ failed_at = "Commit"
    /\ raised[1].type = "ClientError"
    /\ log[Len(log)].msg = "Unexpected error"

\* C5: a response exists only after the commit to storage and catalog
\* succeeded; it has statusCode 200, output_location the configured
\* destination path, and processed_rows the number of elements of the source
\* document's `items`, which is the number of rows committed.
C5_SuccessResponse ==
    response # None =>
        /\ pc = "Responded" /\ raised = None
        /\ to_parquet_call # None
        /\ log[Len(log)] = Info("Data written")
        /\ storage[environ["s3_cleansed_layer"]] = Written(to_parquet_call[1], pre.storage)
        /\ catalog[<< environ["glue_catalog_db_name"], environ["glue_catalog_table_name"] >>] # None
        /\ response[1].statusCode = 200
        /\ response[1].output_location = environ["s3_cleansed_layer"]
        /\ \A d \in SourceDocs : response[1].processed_rows = Len(d.items)
        /\ SourceDocs # {}
        /\ response[1].processed_rows = Len(to_parquet_call[1].df)

C5_Witness ==
    /\ pc = "Responded"
    /\ response[1].processed_rows = 1
    /\ Cardinality(Columns(to_parquet_call[1].df)) = 2

\* the first record of the notification
First == event.Records[1]

\* C6: a notification with at least one record yields one source object
\* reference, the first record's bucket name and its percent-plus-decoded
\* key; the object read, the rows written and the response are those of that
\* reference, whatever records follow the first.
C6_FirstRecordOnly ==
    Len(event.Records) >= 1 =>
        LET ref == s3_path(First.bucket_name, unquote_plus(First.object_key))
            docs == { o.doc : o \in ObjectsAt(ref) }
        IN  /\ pc \notin { "Start", "ConfigResolved" } =>
                  bucket = Some(ref.bucket) /\ key = Some(ref.key)
            /\ df_raw # None => df_raw[1] \in docs
            /\ df_processed # None =>
                  \A d \in docs : df_processed = Some(Normalize(d).value)
            /\ to_parquet_call # None => to_parquet_call[1].df = df_processed[1]
            /\ response # None =>
                  /\ response[1].body = << "Successfully processed", ref.key >>
                  /\ response[1].processed_rows = Len(df_processed[1])
            /\ (pc = "Failed" /\ raised[1].type = "NoFilesFound") => docs = {}
            /\ (docs = {} /\ pc \notin { "Start", "ConfigResolved", "EventDecoded" }) =>
                  pc = "Failed" /\ raised[1].type = "NoFilesFound"

C6_Witness ==
    /\ pc = "Responded"
    /\ Len(event.Records) = 2
    /\ First = Record("raw-1", << PERCENT, 50, 66 >>)
    /\ event.Records[2] # First
    /\ key = Some(<< PLUS >>)
    /\ response[1].processed_rows = 2

\* C7: under `overwrite`, an invocation that repeats the remembered
\* successful one (same notification, same configuration) leaves the
\* destination dataset and the catalog as the first one left them and
\* returns the same response.
C7_OverwriteIdempotent ==
    (pc \in { "Committed", "Responded" } /\ SameRun) =>
        /\ environ["write_data_operation"] = "overwrite"
        /\ storage = lastOk[1].storage
        /\ catalog = lastOk[1].catalog
        /\ pc = "Responded" => response = lastOk[1].response

C7_Witness ==
    /\ pc = "Responded" /\ SameRun
    /\ lastOk[1].n = 2
    /\ pre.storage # storage
    /\ Len(storage[environ["s3_cleansed_layer"]]) = 2

\* C8: under `append`, a successful commit only adds: the rows that were at
\* the destination are still there, in front of exactly the rows of this
\* invocation, and a table the catalog had keeps its location and columns.
C8_AppendOnlyAdds ==
    (pc \in { "Committed", "Responded" } /\ environ["write_data_operation"] = "append") =>
        /\ \A p \in Paths :
              storage[p] = pre.storage[p]
                           \o (IF p = environ["s3_cleansed_layer"] THEN df_processed[1] ELSE <<>>)
        /\ \A t \in Tables :
              pre.catalog[t] # None =>
                  /\ catalog[t] # None
                  /\ catalog[t][1].location = pre.catalog[t][1].location
                  /\ pre.catalog[t][1].columns \subseteq catalog[t][1].columns

C8_Witness ==
    /\ pc = "Responded" /\ environ["write_data_operation"] = "append"
    /\ Len(pre.storage[environ["s3_cleansed_layer"]]) = 2
    /\ Len(storage[environ["s3_cleansed_layer"]]) = 3
    /\ \E t \in Tables : pre.catalog[t] # None

\* C9: a write mode other than `append` and `overwrite` never reaches the
\* commit step: the mode handed to the write call is one of the two, and an
\* invocation configured otherwise neither commits nor responds.
C9_WriteModeIsEnum ==
    /\ to_parquet_call # None => to_parquet_call[1].mode \in { "append", "overwrite" }
    /\ (env # None /\ environ["write_data_operation"] \notin { "append", "overwrite" }) =>
          pc \notin { "Committed", "Responded" }

\* C10: what a failed commit raises and logs tells what it did: two failed
\* commits with the same error outcome changed the same of storage and catalog.
C10_CommitErrorTellsStage ==
    \A x \in seen, y \in seen : x[1] = y[1] => x[2] = y[2]

====
